---- MODULE Spec2Model ----
(***************************************************************************)
(* SMACT: the species-string codec (structure_prediction/utilities.py),    *)
(* the SmactStructure constructor and the prototype builders (builder.py). *)
(*                                                                         *)
(* A Python str is a sequence of one-character strings.  Every function    *)
(* is pure, so the state of each component is the frame of its latest      *)
(* call: the arguments it was given and what it returned or raised.        *)
(***************************************************************************)
EXTENDS Integers, Sequences, FiniteSets, TLC

VARIABLES
    codec_fn,       \* codec: the function called last
    codec_species,  \* codec: the (element, charge) tuple given to unparse_spec
    codec_text,     \* codec: the species string (unparse_spec's return, parse_spec's argument)
    codec_ret,      \* codec: what parse_spec returned or raised
    struct_arg,     \* SmactStructure: the `species` object as the caller gave it
    struct_after,   \* SmactStructure: the caller's `species` object after the call
    struct_ret,     \* SmactStructure: the exception raised, or self.species
    engine_n,       \* builders: how many scaled positions the engine's structure has
    build,          \* builders: frame of the latest builder call
    build_prev      \* builders: frame of the builder call before it

vars == <<codec_fn, codec_species, codec_text, codec_ret,
          struct_arg, struct_after, struct_ret, engine_n, build, build_prev>>

codec_vars == <<codec_fn, codec_species, codec_text, codec_ret>>
struct_vars == <<struct_arg, struct_after, struct_ret>>
build_vars == <<engine_n, build, build_prev>>

----------------------------------------------------------------------------
(* Bounds of the model.                                                    *)

MaxLen == 4        \* longest text given to parse_spec
MaxSymLen == 2     \* longest element symbol given to unparse_spec
MaxCharge == 9     \* largest |charge| given to unparse_spec
MaxList == 3       \* longest list given to SmactStructure
MaxPositions == 9  \* most scaled positions the engine returns

----------------------------------------------------------------------------
(* Characters and the str/int conversions.                                 *)

Upper == <<"A","B","C","D","E","F","G","H","I","J","K","L","M",
           "N","O","P","Q","R","S","T","U","V","W","X","Y","Z">>

Lower == <<"a","b","c","d","e","f","g","h","i","j","k","l","m",
           "n","o","p","q","r","s","t","u","v","w","x","y","z">>

DigitChars == <<"0","1","2","3","4","5","6","7","8","9">>

\* the character class [A-Za-z]
Letters == {Upper[i] : i \in 1..26} \cup {Lower[i] : i \in 1..26}

\* the character class [0-9]
Digits == {DigitChars[i] : i \in 1..10}

\* the character class [\+\-]
Signs == {"+", "-"}

\* ord() of a letter
ord(ch) ==
    IF \E i \in 1..26 : Upper[i] = ch
    THEN 64 + (CHOOSE i \in 1..26 : Upper[i] = ch)
    ELSE 96 + (CHOOSE i \in 1..26 : Lower[i] = ch)

DigitVal(ch) == (CHOOSE i \in 1..10 : DigitChars[i] = ch) - 1

RECURSIVE int(_)
\* int() of a non-empty run of decimal digits (leading zeros allowed)
int(ds) ==
    IF Len(ds) = 1 THEN DigitVal(ds[1])
    ELSE 10 * int(SubSeq(ds, 1, Len(ds) - 1)) + DigitVal(ds[Len(ds)])

RECURSIVE str(_)
\* str() of a non-negative integer, as the f-string renders abs(charge)
str(n) ==
    IF n < 10 THEN <<DigitChars[n + 1]>>
    ELSE str(n \div 10) \o <<DigitChars[(n % 10) + 1]>>

abs(n) == IF n < 0 THEN -n ELSE n

\* `ch in s` for a one-character ch
Contains(s, ch) == \E i \in 1..Len(s) : s[i] = ch

RECURSIVE RunLen(_, _, _)
\* length of the longest run of characters of class C that starts at s[i]
RunLen(s, i, C) ==
    IF i <= Len(s) /\ s[i] \in C THEN 1 + RunLen(s, i + 1, C) ELSE 0

----------------------------------------------------------------------------
(* parse_spec, _parse_species_old, unparse_spec, get_sign                  *)

Returned(ele, charge) == [raised |-> "None", ele |-> ele, charge |-> charge]

Raised(exc) == [raised |-> exc, ele |-> <<>>, charge |-> 0]

\* re.fullmatch in the place of re.match: nothing may follow the sign
re_fullmatch_spec(species) ==
    LET l == RunLen(species, 1, Letters)
        d == RunLen(species, l + 1, Digits)
        k == l + d + 1
    IN  IF l >= 1 /\ k = Len(species) /\ species[k] \in Signs
        THEN [matched |-> TRUE,
              ele |-> SubSeq(species, 1, l),
              oxi_state |-> SubSeq(species, l + 1, k)]
        ELSE [matched |-> FALSE, ele |-> <<>>, oxi_state |-> <<>>]

\* re.match(r"([A-Za-z]+)([0-9]*[\+\-])", species): both quantifiers are
\* greedy and no shorter run can be followed by the next item, so the match
\* is the longest letter run, the longest digit run after it and one sign.
re_match_spec(species) ==
    LET l == RunLen(species, 1, Letters)
        d == RunLen(species, l + 1, Digits)
        k == l + d + 1
    IN  IF l >= 1 /\ k <= Len(species) /\ species[k] \in Signs
        THEN [matched |-> TRUE,
              ele |-> SubSeq(species, 1, l),
              oxi_state |-> SubSeq(species, l + 1, k)]
        ELSE [matched |-> FALSE, ele |-> <<>>, oxi_state |-> <<>>]

\* re.search(r"\d+", species): the leftmost longest digit run, <<>> for None
re_search_digits(species) ==
    IF \E i \in 1..Len(species) : species[i] \in Digits
    THEN LET i == CHOOSE j \in 1..Len(species) :
                      /\ species[j] \in Digits
                      /\ \A m \in 1..(j - 1) : species[m] \notin Digits
         IN  SubSeq(species, i, i + RunLen(species, i, Digits) - 1)
    ELSE <<>>

_parse_species_old(species) ==
    LET l == RunLen(species, 1, Letters)
        charge_match == re_search_digits(species)
        ox0 == IF charge_match # <<>> THEN int(charge_match) ELSE 0
        ox_state == IF Contains(species, "-") THEN -ox0 ELSE ox0
    IN  IF l = 0 THEN Raised("AttributeError")   \* None.group(0)
        ELSE LET ele == SubSeq(species, 1, l)
             IN  IF ox_state = 0 /\ Contains(species, "0") THEN Returned(ele, 0)
                 ELSE IF Contains(species, "+") /\ ox_state = 0 THEN Returned(ele, 1)
                 ELSE IF ox_state = 0 /\ Contains(species, "-") THEN Returned(ele, -1)
                 ELSE Returned(ele, ox_state)

\* parse_spec without the sign factor of the charge
parse_spec_unsigned(species) ==
    LET m == re_match_spec(species)
    IN  IF ~m.matched THEN _parse_species_old(species)
        ELSE LET oxi_state == m.oxi_state
                 digits == SubSeq(oxi_state, 1, Len(oxi_state) - 1)
                 magnitude == IF digits # <<>> THEN int(digits) ELSE 1
             IN  Returned(m.ele, magnitude)

parse_spec(species) ==
    LET m == re_match_spec(species)
    IN  IF ~m.matched THEN _parse_species_old(species)   \* except AttributeError
        ELSE LET oxi_state == m.oxi_state
                 digits == SubSeq(oxi_state, 1, Len(oxi_state) - 1)
                 magnitude == IF digits # <<>> THEN int(digits) ELSE 1
             IN  IF oxi_state[Len(oxi_state)] \in {"+", "-"}
                 THEN Returned(m.ele,
                               magnitude * (IF Contains(oxi_state, "-") THEN -1 ELSE 1))
                 ELSE Returned(m.ele, 0)

\* get_sign with `charge >= 0` in the place of `charge > 0`
get_sign_zero_plus(charge) ==
    IF charge >= 0 THEN <<"+">>
    ELSE <<"-">>

get_sign(charge) ==
    IF charge > 0 THEN <<"+">>
    ELSE IF charge < 0 THEN <<"-">>
    ELSE <<>>

unparse_spec(species) ==
    species[1] \o str(abs(species[2])) \o get_sign(species[2])

----------------------------------------------------------------------------
(* Inputs of the codec.                                                    *)

\* the characters the texts given to parse_spec are made of
TextChars == {"F", "e", "0", "2", "+", "-", "!"}

\* the letters the element symbols given to unparse_spec are made of
SymbolChars == {"F", "e", "O"}

Texts == UNION {[1..n -> TextChars] : n \in 0..MaxLen}

Symbols == UNION {[1..n -> SymbolChars] : n \in 1..MaxSymLen}

Charges == (-MaxCharge)..MaxCharge

NoSpecies == <<<<>>, 0>>

NotCalled == Raised("NotCalled")

----------------------------------------------------------------------------
(* Python objects given to SmactStructure: every object has a type, and    *)
(* the fields the types need (sym: the text of a str or the symbol of a    *)
(* Species, n: the value of an int, items: the items of a tuple or list).  *)

PyStr(sym) == [type |-> "str", sym |-> sym, n |-> 0, items |-> <<>>]

PyInt(n) == [type |-> "int", sym |-> <<>>, n |-> n, items |-> <<>>]

PySpecies(sym) == [type |-> "Species", sym |-> sym, n |-> 0, items |-> <<>>]

PyTuple(items) == [type |-> "tuple", sym |-> <<>>, n |-> 0, items |-> items]

PyList(items) == [type |-> "list", sym |-> <<>>, n |-> 0, items |-> items]

RECURSIVE StrLess(_, _)
\* a < b on two str, lexicographic by code point
StrLess(a, b) ==
    IF Len(b) = 0 THEN FALSE
    ELSE IF Len(a) = 0 THEN TRUE
    ELSE IF a[1] # b[1] THEN ord(a[1]) < ord(b[1])
    ELSE StrLess(Tail(a), Tail(b))

\* the key function lambda x: x[0]; an exception is a value of type "raise"
KeyItem0(x) ==
    IF x.type \in {"tuple", "list"}
    THEN IF Len(x.items) >= 1 THEN x.items[1]
         ELSE [type |-> "raise", sym |-> <<>>, n |-> 0, items |-> <<"IndexError">>]
    ELSE IF x.type = "str"
    THEN IF Len(x.sym) >= 1 THEN PyStr(<<x.sym[1]>>)
         ELSE [type |-> "raise", sym |-> <<>>, n |-> 0, items |-> <<"IndexError">>]
    ELSE [type |-> "raise", sym |-> <<>>, n |-> 0, items |-> <<"TypeError">>]

\* the key function lambda x: x.symbol
KeySymbol(x) ==
    IF x.type = "Species" THEN PyStr(x.sym)
    ELSE [type |-> "raise", sym |-> <<>>, n |-> 0, items |-> <<"AttributeError">>]

\* the call key(x) of the key function sorted() was given
Key(key, x) == IF key = "x[0]" THEN KeyItem0(x) ELSE KeySymbol(x)

RECURSIVE InsertByKey(_, _, _)
\* put x behind every item of the sorted sequence whose key is not greater
InsertByKey(sorted_items, x, key) ==
    IF sorted_items = <<>> THEN <<x>>
    ELSE IF StrLess(Key(key, x).sym, Key(key, sorted_items[Len(sorted_items)]).sym)
    THEN InsertByKey(SubSeq(sorted_items, 1, Len(sorted_items) - 1), x, key)
             \o <<sorted_items[Len(sorted_items)]>>
    ELSE sorted_items \o <<x>>

RECURSIVE StableSort(_, _)
StableSort(items, key) ==
    IF items = <<>> THEN <<>>
    ELSE InsertByKey(StableSort(SubSeq(items, 1, Len(items) - 1), key),
                     items[Len(items)], key)

\* sorted(items, key=...): every key is computed first, in order, and the
\* first exception of a key call is raised; then the keys are compared with
\* <, which raises TypeError between a str and an object of another type;
\* the result is a new list, the stable sort of the items.
sorted(items, key) ==
    IF \E i \in 1..Len(items) : Key(key, items[i]).type = "raise"
    THEN LET i == CHOOSE j \in 1..Len(items) :
                      /\ Key(key, items[j]).type = "raise"
                      /\ \A m \in 1..(j - 1) : Key(key, items[m]).type # "raise"
         IN  [raised |-> Key(key, items[i]).items[1], value |-> <<>>]
    ELSE IF Len(items) >= 2 /\ \E i \in 1..Len(items) : Key(key, items[i]).type # "str"
    THEN [raised |-> "TypeError", value |-> <<>>]
    ELSE [raised |-> "None", value |-> StableSort(items, key)]

\* SmactStructure.__init__ with species.sort(key=...) in the place of
\* sorted(species, key=...): the caller's list is sorted in place
SmactStructure_sort_in_place(species) ==
    LET Raise(exc) == [raised |-> exc, self_species |-> <<>>, species |-> species]
        Store(s) == IF s.raised # "None" THEN Raise(s.raised)
                    ELSE [raised |-> "None", self_species |-> s.value,
                          species |-> PyList(s.value)]
    IN  IF species.type # "list" THEN Raise("TypeError")
        ELSE IF Len(species.items) = 0 THEN Raise("ValueError")
        ELSE IF species.items[1].type # "tuple" THEN Raise("TypeError")
        ELSE IF Len(species.items[1].items) \notin {2, 3} THEN Raise("ValueError")
        ELSE IF species.items[1].items[1].type = "str"
        THEN Store(sorted(species.items, "x[0]"))
        ELSE IF species.items[1].items[1].type = "Species"
        THEN Store(sorted(species.items, "x.symbol"))
        ELSE Raise("TypeError")

\* SmactStructure.__init__ with the emptiness test behind the tuple test:
\* species[0] of an empty list is then a TypeError-kind failure
SmactStructure_empty_late(species) ==
    LET Raise(exc) == [raised |-> exc, self_species |-> <<>>, species |-> species]
        Store(s) == IF s.raised # "None" THEN Raise(s.raised)
                    ELSE [raised |-> "None", self_species |-> s.value,
                          species |-> species]
    IN  IF species.type # "list" THEN Raise("TypeError")
        ELSE IF Len(species.items) = 0 \/ species.items[1].type # "tuple"
        THEN Raise("TypeError")
        ELSE IF Len(species.items[1].items) \notin {2, 3} THEN Raise("ValueError")
        ELSE IF species.items[1].items[1].type = "str"
        THEN Store(sorted(species.items, "x[0]"))
        ELSE IF species.items[1].items[1].type = "Species"
        THEN Store(sorted(species.items, "x.symbol"))
        ELSE Raise("TypeError")

\* SmactStructure.__init__: `self_species` is self.species when nothing is
\* raised, `species` is the caller's object after the call.
SmactStructure(species) ==
    LET Raise(exc) == [raised |-> exc, self_species |-> <<>>, species |-> species]
        Store(s) == IF s.raised # "None" THEN Raise(s.raised)
                    ELSE [raised |-> "None", self_species |-> s.value,
                          species |-> species]
    IN  IF species.type # "list" THEN Raise("TypeError")
        ELSE IF Len(species.items) = 0 THEN Raise("ValueError")
        ELSE IF species.items[1].type # "tuple" THEN Raise("TypeError")
        ELSE IF Len(species.items[1].items) \notin {2, 3} THEN Raise("ValueError")
        ELSE IF species.items[1].items[1].type = "str"
        THEN Store(sorted(species.items, "x[0]"))
        ELSE IF species.items[1].items[1].type = "Species"
        THEN Store(sorted(species.items, "x.symbol"))
        ELSE Raise("TypeError")

----------------------------------------------------------------------------
(* Inputs of SmactStructure.                                               *)

Ba == <<"B", "a">>

O == <<"O">>

Ti == <<"T", "i">>

\* 3-tuples (element, oxidation, stoichiometry); two of them share a symbol
RawTuples ==
    { PyTuple(<<PyStr(O), PyInt(-2), PyInt(3)>>),
      PyTuple(<<PyStr(Ba), PyInt(2), PyInt(1)>>),
      PyTuple(<<PyStr(Ti), PyInt(4), PyInt(1)>>),
      PyTuple(<<PyStr(O), PyInt(-1), PyInt(1)>>) }

\* 2-tuples (Species, stoichiometry)
ObjectTuples ==
    { PyTuple(<<PySpecies(O), PyInt(3)>>),
      PyTuple(<<PySpecies(Ba), PyInt(1)>>) }

\* other things a list can hold
OtherItems ==
    { PyTuple(<<PyStr(Ba), PyInt(2)>>),
      PyTuple(<<PyStr(O), PyInt(-2), PyInt(3), PyInt(0)>>),
      PyTuple(<<PyInt(1), PyInt(2), PyInt(3)>>),
      PyInt(5) }

ListItems == RawTuples \cup ObjectTuples \cup OtherItems

Lists == {PyList(items) : items \in UNION {[1..n -> ListItems] : n \in 0..MaxList}}

NonLists == { PyTuple(<<PyTuple(<<PyStr(O), PyInt(-2), PyInt(3)>>)>>),
              PyStr(O), PyInt(5) }

----------------------------------------------------------------------------
(* The prototype builders.  The crystallographic engine (ase) is external: *)
(* its structure is modelled by the arguments it was called with and by    *)
(* its scaled positions, of which an engine returns n, numbered in order.  *)

crystal(symbols, basis, spacegroup, size, cellpar, n) ==
    [symbols |-> symbols, basis |-> basis, spacegroup |-> spacegroup,
     size |-> size, cellpar |-> cellpar,
     scaled_positions |-> [i \in 1..n |-> i]]

get_scaled_positions(system) == system.scaled_positions

Site(position, oxidation_states) ==
    [position |-> position, oxidation_states |-> oxidation_states]

Lattice(sites, oxidation_states) ==
    [sites |-> sites, oxidation_states |-> oxidation_states]

Min(a, b) == IF a <= b THEN a ELSE b

\* zip(a, b): stops at the end of the shorter sequence
zip(a, b) == [i \in 1..Min(Len(a), Len(b)) |-> <<a[i], b[i]>>]

\* the `for site in zip(...)` loop of both builders
sites_of(pairs) == [i \in 1..Len(pairs) |-> Site(pairs[i][1], pairs[i][2])]

perovskite_basis == <<<<"0", "0", "0">>, <<"0.5", "0.5", "0.5">>, <<"0.5", "0.5", "0">>>>

\* the role list without the `* 3` of the three anion sites
perovskite_oxidation_states_one_anion == <<<<2>>>> \o <<<<4>>>> \o <<<<-2>>>>

perovskite_oxidation_states == <<<<2>>>> \o <<<<4>>>> \o [i \in 1..3 |-> <<-2>>]

cubic_perovskite(species, cell_par, repetitions, n) ==
    LET system == crystal(species, perovskite_basis, 221, repetitions, cell_par, n)
        oxidation_states == perovskite_oxidation_states
        sites_list == sites_of(zip(get_scaled_positions(system), oxidation_states))
    IN  [lattice |-> Lattice(sites_list, oxidation_states), system |-> system]

wurtzite_basis == <<<<"2/3", "1/3", "0">>, <<"2/3", "1/3", "5/8">>>>

wurtzite_oxidation_states ==
    <<<<1>>, <<2>>, <<3>>, <<4>>>> \o <<<<-1>>, <<-2>>, <<-3>>, <<-4>>>>

wurtzite_cellpar == <<3, 3, 6, 90, 90, 120>>

\* wurtzite with cellpar=cell_par, as in cubic_perovskite
wurtzite_caller_cell_par(species, cell_par, repetitions, n) ==
    LET system == crystal(species, wurtzite_basis, 186, repetitions, cell_par, n)
        oxidation_states == wurtzite_oxidation_states
        sites_list == sites_of(zip(get_scaled_positions(system), oxidation_states))
    IN  [lattice |-> Lattice(sites_list, oxidation_states), system |-> system]

wurtzite(species, cell_par, repetitions, n) ==
    LET system == crystal(species, wurtzite_basis, 186, repetitions, wurtzite_cellpar, n)
        oxidation_states == wurtzite_oxidation_states
        sites_list == sites_of(zip(get_scaled_positions(system), oxidation_states))
    IN  [lattice |-> Lattice(sites_list, oxidation_states), system |-> system]

\* the default values of the parameters
cubic_perovskite_default_cell_par == <<6, 6, 6, 90, 90, 90>>

wurtzite_default_cell_par == <<2, 2, 6, 90, 90, 120>>

default_repetitions == <<1, 1, 1>>

----------------------------------------------------------------------------
(* Inputs of the builders.                                                 *)

SpeciesArgs == {<<"Ba", "Ti", "O">>, <<"Zn", "O">>}

CellPars == {cubic_perovskite_default_cell_par, wurtzite_default_cell_par,
             wurtzite_cellpar, <<4, 4, 4, 90, 90, 90>>}

Repetitions == {default_repetitions, <<2, 1, 1>>}

NoBuild ==
    [fn |-> "none", species |-> <<>>, cell_par |-> <<>>, repetitions |-> <<>>,
     ret |-> [lattice |-> Lattice(<<>>, <<>>),
              system |-> crystal(<<>>, <<>>, 0, <<>>, <<>>, 0)]]

----------------------------------------------------------------------------
(* The state machine: one action per call.  No function keeps state        *)
(* between calls, so a behaviour of the codec or of SmactStructure is one  *)
(* call (and the parse of what it formatted); the builders are called      *)
(* again and again, and the frames of the last two calls are kept.         *)

Init ==
    /\ codec_fn = "none"
    /\ codec_species = NoSpecies
    /\ codec_text = <<>>
    /\ codec_ret = NotCalled
    /\ struct_arg = PyList(<<>>)
    /\ struct_after = PyList(<<>>)
    /\ struct_ret = [raised |-> "NotCalled", self_species |-> <<>>]
    /\ engine_n \in 0..MaxPositions
    /\ build = NoBuild
    /\ build_prev = NoBuild

\* parse_spec(text)
ParseSpec ==
    /\ codec_fn = "none"
    /\ \E text \in Texts :
           /\ codec_fn' = "parse_spec"
           /\ codec_species' = NoSpecies
           /\ codec_text' = text
           /\ codec_ret' = parse_spec(text)
    /\ UNCHANGED <<struct_vars, build_vars>>

\* unparse_spec((ele, charge))
UnparseSpec ==
    /\ codec_fn = "none"
    /\ \E ele \in Symbols, charge \in Charges :
           /\ codec_fn' = "unparse_spec"
           /\ codec_species' = <<ele, charge>>
           /\ codec_text' = unparse_spec(<<ele, charge>>)
           /\ codec_ret' = NotCalled
    /\ UNCHANGED <<struct_vars, build_vars>>

\* parse_spec(unparse_spec((ele, charge))): the string just formatted is parsed
ParseUnparsed ==
    /\ codec_fn = "unparse_spec"
    /\ codec_fn' = "parse_spec(unparse_spec)"
    /\ codec_ret' = parse_spec(codec_text)
    /\ UNCHANGED <<codec_species, codec_text, struct_vars, build_vars>>

\* SmactStructure(species)
NewSmactStructure ==
    /\ struct_ret.raised = "NotCalled"
    /\ \E species \in Lists \cup NonLists :
           LET r == SmactStructure(species)
           IN  /\ struct_arg' = species
               /\ struct_after' = r.species
               /\ struct_ret' = [raised |-> r.raised, self_species |-> r.self_species]
    /\ UNCHANGED <<codec_vars, build_vars>>

\* cubic_perovskite(species, cell_par, repetitions)
CubicPerovskite ==
    /\ \E species \in SpeciesArgs, cell_par \in CellPars, repetitions \in Repetitions :
           build' = [fn |-> "cubic_perovskite", species |-> species,
                     cell_par |-> cell_par, repetitions |-> repetitions,
                     ret |-> cubic_perovskite(species, cell_par, repetitions, engine_n)]
    /\ build_prev' = build
    /\ UNCHANGED <<codec_vars, struct_vars, engine_n>>

\* wurtzite(species, cell_par, repetitions)
Wurtzite ==
    /\ \E species \in SpeciesArgs, cell_par \in CellPars, repetitions \in Repetitions :
           build' = [fn |-> "wurtzite", species |-> species,
                     cell_par |-> cell_par, repetitions |-> repetitions,
                     ret |-> wurtzite(species, cell_par, repetitions, engine_n)]
    /\ build_prev' = build
    /\ UNCHANGED <<codec_vars, struct_vars, engine_n>>

NextCodec == ParseSpec \/ UnparseSpec \/ ParseUnparsed

NextStructure == NewSmactStructure

NextBuilder == CubicPerovskite \/ Wurtzite

SpecCodec == Init /\ [][NextCodec]_vars

SpecStructure == Init /\ [][NextStructure]_vars

SpecBuilder == Init /\ [][NextBuilder]_vars

----------------------------------------------------------------------------
(* Properties of the codec, under SpecCodec.                               *)

\* parse_spec has been called and codec_ret is its outcome
Parsed == codec_fn \in {"parse_spec", "parse_spec(unparse_spec)"}

\* unparse_spec has been called and codec_text is what it returned
Unparsed == codec_fn \in {"unparse_spec", "parse_spec(unparse_spec)"}

\* C1: parsing the string unparse_spec made of (e, c) gives back exactly
\* (e, c), for every letters-only symbol e and every charge c in the range,
\* c = 0 included.
RoundTrip ==
    codec_fn = "parse_spec(unparse_spec)"
        => codec_ret = Returned(codec_species[1], codec_species[2])

RoundTripOfNeutral ==
    /\ codec_fn = "parse_spec(unparse_spec)"
    /\ codec_species = <<<<"F", "e">>, 0>>
    /\ codec_text = <<"F", "e", "0">>
    /\ codec_ret = Returned(<<"F", "e">>, 0)

\* C2: a text that starts with letters and holds no sign character parses
\* to charge 0, whatever digits it holds.
NoSignMeansNeutral ==
    ( /\ Parsed
      /\ RunLen(codec_text, 1, Letters) >= 1
      /\ ~Contains(codec_text, "+")
      /\ ~Contains(codec_text, "-") )
        => (codec_ret.raised = "None" /\ codec_ret.charge = 0)

\* the whole text is letters+ digits* sign?
MatchesGrammar(text) ==
    LET l == RunLen(text, 1, Letters)
        d == RunLen(text, l + 1, Digits)
    IN  /\ l >= 1
        /\ \/ l + d = Len(text)
           \/ l + d + 1 = Len(text) /\ text[Len(text)] \in Signs

\* C3, as claimed: parse_spec returns a pair for the texts that match the
\* whole grammar letters+ digits* sign? and fails for every other text.
ParsesOnlyTheGrammar ==
    Parsed => (codec_ret.raised = "None" <=> MatchesGrammar(codec_text))

\* C3, amended: parse_spec fails (AttributeError) exactly for the texts with
\* no leading letter run; a text that starts with letters returns a pair
\* whose element is that run, and what follows a letters+ digits* sign prefix
\* is ignored: the result is the one of the prefix.
ParsesEveryLeadingSymbol ==
    Parsed =>
        LET l == RunLen(codec_text, 1, Letters)
            k == l + RunLen(codec_text, l + 1, Digits) + 1
        IN  /\ l = 0 => codec_ret = Raised("AttributeError")
            /\ l >= 1 => /\ codec_ret.raised = "None"
                         /\ codec_ret.ele = SubSeq(codec_text, 1, l)
            /\ (l >= 1 /\ k <= Len(codec_text) /\ codec_text[k] \in Signs)
                   => codec_ret = parse_spec(SubSeq(codec_text, 1, k))

TrailingGarbageParsed ==
    /\ codec_fn = "parse_spec"
    /\ codec_text = <<"F", "+", "2", "!">>
    /\ codec_ret = Returned(<<"F">>, 1)

\* C4, as claimed: the species (e, 0) is formatted as the bare symbol e.
NeutralIsBareSymbol ==
    (Unparsed /\ codec_species[2] = 0) => codec_text = codec_species[1]

\* C4, amended: the species (e, 0) is formatted as e followed by the
\* magnitude digit 0 and no sign.
NeutralIsSymbolAndZero ==
    (Unparsed /\ codec_species[2] = 0) => codec_text = codec_species[1] \o <<"0">>

NeutralUnparsed ==
    /\ codec_fn = "unparse_spec"
    /\ codec_species = <<<<"O">>, 0>>
    /\ codec_text = <<"O", "0">>

----------------------------------------------------------------------------
(* Properties of SmactStructure, under SpecStructure.                      *)

Constructed == struct_ret.raised # "NotCalled"

\* a list of 3-tuples whose first component is a str
RawForm(species) ==
    /\ species.type = "list"
    /\ Len(species.items) >= 1
    /\ \A i \in 1..Len(species.items) :
           /\ species.items[i].type = "tuple"
           /\ Len(species.items[i].items) = 3
           /\ species.items[i].items[1].type = "str"

\* a list of 2-tuples whose first component is a Species
ObjectForm(species) ==
    /\ species.type = "list"
    /\ Len(species.items) >= 1
    /\ \A i \in 1..Len(species.items) :
           /\ species.items[i].type = "tuple"
           /\ Len(species.items[i].items) = 2
           /\ species.items[i].items[1].type = "Species"

\* a list of tuples, some of 2 and some of 3 elements
MixedShapes(species) ==
    /\ species.type = "list"
    /\ \A i \in 1..Len(species.items) : species.items[i].type = "tuple"
    /\ \E i \in 1..Len(species.items) : Len(species.items[i].items) = 2
    /\ \E i \in 1..Len(species.items) : Len(species.items[i].items) = 3

IndexPermutations(n) == {p \in [1..n -> 1..n] : \A i, j \in 1..n : p[i] = p[j] => i = j}

\* out is a permutation of in, ordered by the symbol, ties in input order
IsStableSortOf(out, in) ==
    /\ Len(out) = Len(in)
    /\ \E p \in IndexPermutations(Len(in)) :
           /\ \A i \in 1..Len(in) : out[i] = in[p[i]]
           /\ \A i, j \in 1..Len(in) :
                  i < j => \/ StrLess(out[i].items[1].sym, out[j].items[1].sym)
                           \/ /\ out[i].items[1].sym = out[j].items[1].sym
                              /\ p[i] < p[j]

\* C5: from a raw-form list SmactStructure stores a new sequence, the
\* permutation of the input in non-decreasing order of the symbol with equal
\* symbols in input order; the input list is left as it was, and
\* constructing from the stored sequence stores the same sequence.
RawFormSortedStably ==
    (Constructed /\ RawForm(struct_arg)) =>
        /\ struct_ret.raised = "None"
        /\ IsStableSortOf(struct_ret.self_species, struct_arg.items)
        /\ struct_after = struct_arg
        /\ SmactStructure(PyList(struct_ret.self_species)).self_species
               = struct_ret.self_species

RawFormReordered ==
    /\ struct_arg.items = << PyTuple(<<PyStr(O), PyInt(-2), PyInt(3)>>),
                             PyTuple(<<PyStr(Ba), PyInt(2), PyInt(1)>>),
                             PyTuple(<<PyStr(O), PyInt(-1), PyInt(1)>>) >>
    /\ struct_ret.raised = "None"
    /\ struct_ret.self_species = << PyTuple(<<PyStr(Ba), PyInt(2), PyInt(1)>>),
                                    PyTuple(<<PyStr(O), PyInt(-2), PyInt(3)>>),
                                    PyTuple(<<PyStr(O), PyInt(-1), PyInt(1)>>) >>

\* C6: from an object-form list the construction succeeds and stores the
\* tuples ordered by the symbol of the referenced species.
ObjectFormSorted ==
    (Constructed /\ ObjectForm(struct_arg)) =>
        /\ struct_ret.raised = "None"
        /\ Len(struct_ret.self_species) = Len(struct_arg.items)
        /\ \A i, j \in 1..Len(struct_ret.self_species) :
               i < j => ~StrLess(struct_ret.self_species[j].items[1].sym,
                                 struct_ret.self_species[i].items[1].sym)

\* C7: a list that mixes 2-element and 3-element tuples is rejected,
\* wherever the odd tuple is, and nothing is stored.
MixedShapesRejected ==
    (Constructed /\ MixedShapes(struct_arg)) =>
        (struct_ret.raised # "None" /\ struct_ret.self_species = <<>>)

\* C8, as claimed: a TypeError when the input is not a list, is an empty
\* list, or has a first element that is not a tuple.
BadInputIsTypeError ==
    ( /\ Constructed
      /\ \/ struct_arg.type # "list"
         \/ Len(struct_arg.items) = 0
         \/ struct_arg.items[1].type # "tuple" )
        => struct_ret.raised = "TypeError"

\* C8, amended: a TypeError when the input is not a list or when the first
\* element of the list is not a tuple, and a ValueError when the input is
\* an empty list.
BadInputIsTypeOrValueError ==
    Constructed =>
        /\ struct_arg.type # "list" => struct_ret.raised = "TypeError"
        /\ (struct_arg.type = "list" /\ Len(struct_arg.items) = 0)
               => struct_ret.raised = "ValueError"
        /\ ( /\ struct_arg.type = "list"
             /\ Len(struct_arg.items) >= 1
             /\ struct_arg.items[1].type # "tuple" )
               => struct_ret.raised = "TypeError"

EmptyListRejected ==
    /\ Constructed
    /\ struct_arg = PyList(<<>>)
    /\ struct_ret.raised = "ValueError"

----------------------------------------------------------------------------
(* Properties of the builders, under SpecBuilder.                          *)

\* C9: the sites of the Lattice are the pairing, in order, of the engine's
\* scaled positions with the fixed role list of the prototype: site i has
\* position i and role i, there are min(n, r) sites, none is dropped when
\* n = r, and the Lattice is given the whole role list.
SitesPairPositionsWithRoles ==
    build.fn # "none" =>
        LET roles == IF build.fn = "cubic_perovskite"
                     THEN <<<<2>>, <<4>>, <<-2>>, <<-2>>, <<-2>>>>
                     ELSE <<<<1>>, <<2>>, <<3>>, <<4>>, <<-1>>, <<-2>>, <<-3>>, <<-4>>>>
            positions == build.ret.system.scaled_positions
            sites == build.ret.lattice.sites
        IN  /\ Len(positions) = engine_n
            /\ Len(sites) = Min(engine_n, Len(roles))
            /\ engine_n = Len(roles) => Len(sites) = engine_n
            /\ \A i \in 1..Len(sites) :
                   /\ sites[i].position = positions[i]
                   /\ sites[i].oxidation_states = roles[i]
            /\ build.ret.lattice.oxidation_states = roles

PairedThenTruncated ==
    /\ engine_n = 5
    /\ build_prev.fn = "cubic_perovskite"
    /\ Len(build_prev.ret.lattice.sites) = 5
    /\ build.fn = "wurtzite"
    /\ Len(build.ret.lattice.sites) = 5
    /\ Len(build.ret.lattice.oxidation_states) = 8

====
